---- MODULE Spec2Model ----
(***************************************************************************)
(* Chat subsystem of work-flow-connect: the REST handlers of               *)
(* server/src/controllers/chat.controller.js over the relational store.    *)
(*                                                                         *)
(* The store is the three tables "Chats", "ChatParticipants", "Messages".  *)
(* Every await of a handler is one step of a request.  A handler that      *)
(* opens a transaction writes into its own write set, which other requests *)
(* do not see before t.commit() (READ COMMITTED, the PostgreSQL default);  *)
(* a handler without a transaction writes each statement straight to the   *)
(* tables.  Spec runs one request at a time, SpecRace two createChat       *)
(* requests concurrently, SpecMessages the message handlers, SpecRead the  *)
(* message and read handlers.                                              *)
(*                                                                         *)
(* SpecClient adds the client of user A: the ChatProvider of the web       *)
(* application (its chats and activeChat state, sendMessage with its       *)
(* optimistic entry, the new_message and messages_read handlers) and the   *)
(* socket of src/lib/socket.ts.  The socket side of the server answers     *)
(* join_chat, send_message and mark_read over one room per chat.           *)
(*                                                                         *)
(* SpecGroup runs a group chat: addParticipant, leaveChat and sendMessage  *)
(* of two requests concurrently, with the failures of a statement and of   *)
(* t.commit().  SpecSession is the life of the client's socket across      *)
(* login and logout, and the onlineUsers list.  SpecService is the         *)
(* in-memory chat service of src/lib/socket.ts, the fallback of            *)
(* createPrivateChat.                                                      *)
(*                                                                         *)
(* sequelize.query(sql, {type: QueryTypes.SELECT}) resolves to the array   *)
(* of rows, so `const [x] = await sequelize.query(...)` binds x to the     *)
(* first row or to undefined.                                              *)
(***************************************************************************)
EXTENDS Integers, Sequences, FiniteSets, Bags, TLC

\* ------------------------------------------------------------------ bounds
MaxChats == 2
\* messages the store holds in the specifications of the server alone
MaxMessages == 1
\* message ids the store hands out
MaxMessageIds == 2
\* the last value of the client's Date.now()
MaxNow == 2
\* messages the client keeps in the list of one chat
MaxListLen == 2
\* entries the client keeps in onlineUsers
MaxOnline == 3
\* chats the in-memory chat service keeps
MaxServiceChats == 3

\* ------------------------------------------------------------------ inputs
Users == {"A", "B", "C"}
Reqs == {"r1", "r2"}
NoUser == "none"

\* message contents: strings as sequences of characters
Contents == { <<>>, <<" ">>, <<" ", " ">>, <<"h", "i">>, <<" ", "h", " ">> }

\* createChat requests <<req.user.id, participantIds, isGroup>>
CreateChatRequests ==
    { <<"A", <<>>, FALSE>>,
      <<"A", <<"B">>, FALSE>>,
      <<"B", <<"A">>, FALSE>>,
      <<"B", <<"B", "A">>, FALSE>>,
      <<"A", <<"A">>, FALSE>>,
      <<"A", <<"B", "C">>, FALSE>>,
      <<"A", <<"B", "B">>, TRUE>>,
      <<"A", <<"B">>, TRUE>> }

\* the createChat requests of two users racing for their private chat
RaceRequests ==
    { <<"A", <<"B">>, FALSE>>,
      <<"B", <<"A">>, FALSE>>,
      <<"B", <<"A", "B">>, FALSE>> }

\* the createChat request that sets up the group chat of A and B
GroupChatRequests == { <<"A", <<"B">>, TRUE>> }

\* the createChat requests that set up the chats messages are sent to
MessageChatRequests ==
    { <<"A", <<"B">>, FALSE>>,
      <<"B", <<"C", "A">>, TRUE>> }

\* user ids a request can name: the users and an id no user has
UserIds == Users \cup {"Z"}

\* the text of the system messages
JoinNotice == <<"j">>
LeaveNotice == <<"l">>

\* chat ids a request can name: the ids the store hands out
ChatIds == 1..MaxChats

\* ------------------------------------------------------------------ state
\* the store and the requests of the server
VARIABLES Chats, ChatParticipants, Messages, clock, req

\* the chat context of one client (ChatProvider) and its socket
VARIABLES chats, activeChat, loadingChats, connected, wire, inbox, rooms,
          send, dateNow, toasts

\* the socket lost its connection and is trying to reconnect
VARIABLES reconnecting

svars == <<Chats, ChatParticipants, Messages, clock, req>>
cvars == <<chats, activeChat, loadingChats, connected, wire, inbox, rooms,
           send, dateNow, toasts>>
\* the session of the client: the token of the user logged in, the socket
\* of socket.ts, the onlineUsers of ChatProvider and the presence the server
\* announced last for every user
VARIABLES token, socket, onlineUsers, presence

\* the in-memory chat service: its CHATS array and the createChat calls
VARIABLES CHATS, calls

sessvars == <<token, socket, onlineUsers, presence>>
servicevars == <<CHATS, calls>>
xvars == <<reconnecting, sessvars, servicevars>>
vars == <<svars, cvars, xvars>>

\* a missing row: what `const [x] = rows` binds when rows is empty
NoRow == [id |-> 0]

\* one (userId, chatId) link of the join table
Link(u, c) == [userId |-> u, chatId |-> c]

\* the write set of an open transaction
NoTx == [state |-> "none", Chats |-> {}, ChatParticipants |-> EmptyBag,
         Messages |-> {}, touched |-> {}, now |-> 0, deleted |-> {}]
\* sequelize.transaction(): NOW() is the start time in every statement of it
OpenTx == [NoTx EXCEPT !.state = "open", !.now = clock]

\* the clock after a commit: later than every timestamp the commit stored
Later(t) == IF t.Chats # {} \/ t.Messages # {} \/ t.touched # {}
            THEN clock + 1 ELSE clock

\* a request slot with the handler's local variables
IdleReq == [h |-> "idle", pc |-> "idle", user |-> NoUser, chatId |-> 0,
            userId |-> NoUser, participantIds |-> <<>>, isGroup |-> FALSE,
            content |-> <<>>, allParticipantIds |-> <<>>,
            existingChats |-> NoRow, newChat |-> 0, i |-> 0,
            chat |-> NoRow, isParticipant |-> FALSE, messageId |-> 0,
            tx |-> NoTx, status |-> 0, resChat |-> 0, resChats |-> {},
            resMessage |-> 0, page |-> 1, messages |-> NoRow,
            resMessages |-> <<>>]

Free(r) == req[r].pc \in {"idle", "done"}

\* request r is a call of handler h that has answered
Done(r, h) == req[r].pc = "done" /\ req[r].h = h

\* ------------------------------------------------------------ JS helpers
\* Array.prototype.includes
Includes(s, x) == \E k \in 1..Len(s) : s[k] = x

\* the elements of an array
Elems(s) == { s[k] : k \in 1..Len(s) }

\* `v.length > 0`: a row object has no length property and
\* `undefined > 0` is false
LengthGreaterThanZero(v) ==
    IF "length" \in DOMAIN v THEN v.length > 0 ELSE FALSE

\* String.prototype.trim
RECURSIVE TrimLeft(_)
TrimLeft(s) == IF s # <<>> /\ Head(s) = " " THEN TrimLeft(Tail(s)) ELSE s

RECURSIVE TrimRight(_)
TrimRight(s) ==
    IF s # <<>> /\ s[Len(s)] = " " THEN TrimRight(SubSeq(s, 1, Len(s) - 1))
    ELSE s

\* a validation that forgets to trim
NoTrim(s) == s

Trim(s) == TrimRight(TrimLeft(s))

\* --------------------------------------------------------- store helpers
\* rows a statement of request r sees: the committed rows and r's own writes
Pending(r) == IF req[r].tx.state = "open" THEN req[r].tx ELSE NoTx

VisibleChats(r) == Chats \cup Pending(r).Chats

VisibleLinks(r) ==
    LET all == ChatParticipants (+) Pending(r).ChatParticipants
    IN  [l \in { k \in DOMAIN all : k \notin Pending(r).deleted } |-> all[l]]

VisibleMessages(r) == Messages \cup Pending(r).Messages

\* SELECT COUNT(*) FROM "ChatParticipants" WHERE "chatId" = c
CountLinks(links, c) ==
    BagCardinality([l \in { k \in DOMAIN links : k.chatId = c } |-> links[l]])

\* a participant check that lets everyone in
AnyLink(links, c, u) == TRUE

\* SELECT 1 FROM "ChatParticipants" WHERE "chatId" = c AND "userId" = u
HasLink(links, c, u) == BagIn(Link(u, c), links)

\* uuid_generate_v4 / UUIDV4: an id no row, committed or pending, carries
UsedChatIds == { c.id : c \in Chats \cup UNION { Pending(r).Chats : r \in Reqs } }
UsedMessageIds ==
    { m.id : m \in Messages \cup UNION { Pending(r).Messages : r \in Reqs } }

FreshChatIds == { n \in 1..MaxChats : n \notin UsedChatIds
                                       /\ \A k \in 1..(n - 1) : k \in UsedChatIds }
FreshMessageIds == { n \in 1..MaxMessageIds : n \notin UsedMessageIds
                                       /\ \A k \in 1..(n - 1) : k \in UsedMessageIds }

\* a commit that loses the chats of the transaction
LoseChats(t) == Chats

\* t.commit(): the write set becomes visible
CommitChats(t) ==
    { IF d.id \in t.touched THEN [d EXCEPT !.lastMessageAt = t.now] ELSE d
      : d \in Chats \cup t.Chats }
CommitLinks(t) ==
    LET all == ChatParticipants (+) t.ChatParticipants
    IN  [l \in { k \in DOMAIN all : k \notin t.deleted } |-> all[l]]
\* a commit that loses the messages of the transaction
LoseMessages(t) == Messages

CommitMessages(t) == Messages \cup t.Messages

\* ------------------------------------------------------------- createChat
\* the private-chat lookup of createChat
ExistingChatRows(r, userId1, userId2) ==
    { [id |-> c.id] : c \in { d \in VisibleChats(r) :
          /\ d.isGroup = FALSE
          /\ CountLinks(VisibleLinks(r), d.id) = 2
          /\ HasLink(VisibleLinks(r), d.id, userId1)
          /\ HasLink(VisibleLinks(r), d.id, userId2) } }

\* lines 6-31: open the transaction, validate, force the caller in
CreateChatStart(r, requests) ==
    /\ Free(r)
    /\ \E rq \in requests :
         LET u    == rq[1]
             ids  == rq[2]
             g    == rq[3]
             base == [IdleReq EXCEPT !.h = "createChat", !.user = u,
                                     !.participantIds = ids, !.isGroup = g]
             all  == IF Includes(ids, u) THEN ids ELSE Append(ids, u)
         IN  req' = [req EXCEPT ![r] =
                 IF Len(ids) < 1
                 THEN [base EXCEPT !.pc = "done", !.status = 400,
                                   !.tx = [OpenTx EXCEPT !.state = "rolledback"]]
                 ELSE [base EXCEPT !.allParticipantIds = all, !.tx = OpenTx,
                                   !.pc = IF ~g /\ Len(all) = 2
                                          THEN "cc_lookup" ELSE "cc_create"]]
    /\ UNCHANGED <<Chats, ChatParticipants, Messages, clock>>

\* lines 34-100: look for the private chat of the two users.  existingChats
\* is the first row of the result, an object {id}; it has no length, the test
\* of line 60 is false for it and lines 61-94 do not run.
CreateChatLookup(r) ==
    /\ req[r].pc = "cc_lookup"
    /\ LET rows == ExistingChatRows(r, req[r].allParticipantIds[1],
                                       req[r].allParticipantIds[2])
       IN \E existingChats \in (IF rows = {} THEN {NoRow} ELSE rows) :
            IF existingChats # NoRow /\ LengthGreaterThanZero(existingChats)
            THEN /\ req' = [req EXCEPT ![r].existingChats = existingChats,
                                       ![r].tx.state = "committed",
                                       ![r].pc = "done", ![r].status = 200,
                                       ![r].resChat = existingChats.id]
            ELSE /\ req' = [req EXCEPT ![r].existingChats = existingChats,
                                       ![r].pc = "cc_create"]
    /\ UNCHANGED <<Chats, ChatParticipants, Messages, clock>>

\* lines 102-125: Chat.create inside the transaction
CreateChatInsert(r) ==
    /\ req[r].pc = "cc_create"
    /\ \E id \in FreshChatIds :
         req' = [req EXCEPT ![r].newChat = id,
                            ![r].tx.Chats = @ \cup
                                { [id |-> id, isGroup |-> req[r].isGroup,
                                   lastMessageAt |-> clock] },
                            ![r].i = 1,
                            ![r].pc = "cc_participants"]
    /\ UNCHANGED <<Chats, ChatParticipants, Messages, clock>>

\* lines 128-134: one ChatParticipant.create per entry of allParticipantIds
CreateChatAddParticipant(r) ==
    /\ req[r].pc = "cc_participants"
    /\ req[r].i <= Len(req[r].allParticipantIds)
    /\ req' = [req EXCEPT ![r].tx.ChatParticipants = @ (+)
                    SetToBag({ Link(req[r].allParticipantIds[req[r].i],
                                    req[r].newChat) }),
                          ![r].i = @ + 1]
    /\ UNCHANGED <<Chats, ChatParticipants, Messages, clock>>

\* lines 137-155: reload the chat, commit, answer 201
CreateChatCommit(r) ==
    /\ req[r].pc = "cc_participants"
    /\ req[r].i > Len(req[r].allParticipantIds)
    /\ Chats' = CommitChats(req[r].tx)
    /\ ChatParticipants' = CommitLinks(req[r].tx)
    /\ Messages' = CommitMessages(req[r].tx)
    /\ req' = [req EXCEPT ![r].tx.state = "committed",
                          ![r].pc = "done", ![r].status = 201,
                          ![r].resChat = req[r].newChat]
    /\ clock' = Later(req[r].tx)

\* t.commit() throws (the connection is lost): the transaction is finished
\* for Sequelize, so the t.rollback() of the catch block throws as well and
\* the handler ends without a response.  The database has applied the commit
\* or it has not.
Unanswered(q, applied) ==
    [q EXCEPT !.pc = "done", !.status = 0,
              !.tx.state = IF applied THEN "committed" ELSE "broken"]

\* lines 145 and 156-158: t.commit() of createChat throws
CreateChatCommitThrows(r) ==
    /\ req[r].pc = "cc_participants"
    /\ req[r].i > Len(req[r].allParticipantIds)
    /\ \E applied \in BOOLEAN :
         /\ req' = [req EXCEPT ![r] = Unanswered(@, applied)]
         /\ IF applied
            THEN /\ Chats' = CommitChats(req[r].tx)
                 /\ ChatParticipants' = CommitLinks(req[r].tx)
                 /\ Messages' = CommitMessages(req[r].tx)
                 /\ clock' = Later(req[r].tx)
            ELSE UNCHANGED <<Chats, ChatParticipants, Messages, clock>>

\* --------------------------------------------------------------- getChats
\* SELECT ... FROM "Messages" WHERE "chatId" = c ORDER BY "createdAt" DESC
\* LIMIT limit OFFSET offset, as the sequence of rows
RECURSIVE NewestFirst(_)
NewestFirst(ms) ==
    IF ms = {} THEN <<>>
    ELSE LET m == CHOOSE x \in ms : \A y \in ms :
                      \/ y.createdAt < x.createdAt
                      \/ (y.createdAt = x.createdAt /\ y.id <= x.id)
         IN  <<m>> \o NewestFirst(ms \ {m})

MessageRows(c, limit, offset) ==
    LET all == NewestFirst({ m \in Messages : m.chatId = c })
    IN  SubSeq(all, offset + 1,
               IF offset + limit < Len(all) THEN offset + limit ELSE Len(all))

\* the participants of chat c, as the `participants` include loads them
ParticipantsOf(c) == { l.userId : l \in { k \in DOMAIN ChatParticipants : k.chatId = c } }

\* the messages include of getChats: the newest messages of a chat (line 211)
ChatMessagesLimit == 20

\* lines 164-266: Chat.findAll without a where clause, then the response
GetChatsFor(r, u) ==
    /\ Free(r)
    /\ req' = [req EXCEPT ![r] =
           [IdleReq EXCEPT !.h = "getChats", !.user = u, !.pc = "done",
                           !.status = 200,
                           !.resChats =
                               { [id |-> c.id,
                                  participants |-> ParticipantsOf(c.id),
                                  messages |-> MessageRows(c.id, ChatMessagesLimit, 0)]
                                 : c \in Chats }]]
    /\ UNCHANGED <<Chats, ChatParticipants, Messages, clock>>

GetChats(r) == \E u \in Users : GetChatsFor(r, u)

\* ------------------------------------------------------------ sendMessage
\* an update that leaves lastMessageAt alone
NoTouchChat(rows, c, now) == rows

\* UPDATE "Chats" SET "lastMessageAt" = NOW() WHERE id = c
TouchChat(rows, c, now) ==
    { IF d.id = c THEN [d EXCEPT !.lastMessageAt = now] ELSE d : d \in rows }

\* a row lock on chat c held by the open transaction of another request
ChatLocked(r, c) == \E q \in Reqs \ {r} : c \in Pending(q).touched

\* lines 350-369: validate the content, check that the chat exists
SendMessageFor(r, u, c, content) ==
    /\ Free(r)
    /\ LET base == [IdleReq EXCEPT !.h = "sendMessage", !.user = u,
                                   !.chatId = c, !.content = content]
           chatExists == \E d \in Chats : d.id = c
       IN  req' = [req EXCEPT ![r] =
               IF content = <<>> \/ Trim(content) = <<>>
               THEN [base EXCEPT !.pc = "done", !.status = 400]
               ELSE IF ~chatExists
               THEN [base EXCEPT !.pc = "done", !.status = 404]
               ELSE [base EXCEPT !.chat = [id |-> c], !.pc = "sm_member"]]
    /\ UNCHANGED <<Chats, ChatParticipants, Messages, clock>>

SendMessageStart(r) ==
    \E u \in Users, c \in ChatIds, content \in Contents :
        SendMessageFor(r, u, c, content)

\* lines 371-382: the sender has to be a participant
SendMessageMember(r) ==
    /\ req[r].pc = "sm_member"
    /\ LET isParticipant == HasLink(ChatParticipants, req[r].chatId, req[r].user)
       IN  req' = [req EXCEPT ![r] =
               IF ~isParticipant
               THEN [@ EXCEPT !.pc = "done", !.status = 403]
               ELSE [@ EXCEPT !.isParticipant = TRUE, !.pc = "sm_insert"]]
    /\ UNCHANGED <<Chats, ChatParticipants, Messages, clock>>

\* lines 384-392: INSERT INTO "Messages" ... RETURNING id
SendMessageInsert(r) ==
    /\ req[r].pc = "sm_insert"
    /\ \E id \in FreshMessageIds :
         /\ Messages' = Messages \cup
               { [id |-> id, chatId |-> req[r].chatId, userId |-> req[r].user,
                  content |-> req[r].content, read |-> FALSE,
                  createdAt |-> clock] }
         /\ req' = [req EXCEPT ![r].messageId = id, ![r].pc = "sm_update"]
    /\ clock' = clock + 1
    /\ UNCHANGED <<Chats, ChatParticipants>>

\* lines 394-402: UPDATE "Chats" SET "lastMessageAt" = NOW()
SendMessageUpdate(r) ==
    /\ req[r].pc = "sm_update"
    /\ ~ChatLocked(r, req[r].chatId)
    /\ Chats' = TouchChat(Chats, req[r].chatId, clock)
    /\ req' = [req EXCEPT ![r].pc = "sm_select"]
    /\ clock' = IF Chats' # Chats THEN clock + 1 ELSE clock
    /\ UNCHANGED <<ChatParticipants, Messages>>

\* lines 404-421: read the message back and answer 201
SendMessageRespond(r) ==
    /\ req[r].pc = "sm_select"
    /\ LET rows == { m \in Messages : m.id = req[r].messageId }
       IN  req' = [req EXCEPT ![r].pc = "done", ![r].status = 201,
                              ![r].resMessage =
                                  IF rows = {} THEN 0 ELSE req[r].messageId]
    /\ UNCHANGED <<Chats, ChatParticipants, Messages, clock>>

\* ------------------------------------------------ getChat, getChatMessages
\* the page size when the query string names none (line 662)
DefaultLimit == 50

\* pages a request can ask for
Pages == {1, 2}

\* `const [x] = rows`: the first row, or undefined
FirstRow(rows) == IF rows = <<>> THEN NoRow ELSE Head(rows)

\* a marking that flips the flag
ToggleRead(ms, c, u) ==
    { IF m.chatId = c /\ m.userId # u THEN [m EXCEPT !.read = ~m.read] ELSE m
      : m \in ms }

\* a marking that forgets the sender test
MarkAllRead(ms, c, u) ==
    { IF m.chatId = c /\ ~m.read THEN [m EXCEPT !.read = TRUE] ELSE m
      : m \in ms }

\* UPDATE "Messages" SET read = true
\* WHERE "chatId" = c AND "userId" != u AND read = false
MarkRead(ms, c, u) ==
    { IF m.chatId = c /\ m.userId # u /\ ~m.read
      THEN [m EXCEPT !.read = TRUE] ELSE m : m \in ms }

\* `v.reverse()` is defined for an array only; a row object and undefined
\* have no reverse and the call throws a TypeError
HasReverse(v) == "length" \in DOMAIN v

\* lines 269-286: the requester has to be a participant
GetChatStart(r) ==
    /\ Free(r)
    /\ \E u \in Users, c \in ChatIds :
         LET base == [IdleReq EXCEPT !.h = "getChat", !.user = u, !.chatId = c]
         IN  req' = [req EXCEPT ![r] =
                 IF ~HasLink(ChatParticipants, c, u)
                 THEN [base EXCEPT !.pc = "done", !.status = 403]
                 ELSE [base EXCEPT !.isParticipant = TRUE, !.pc = "gc_chat"]]
    /\ UNCHANGED <<Chats, ChatParticipants, Messages, clock>>

\* lines 288-297: SELECT * FROM "Chats" WHERE id = :chatId
GetChatDetails(r) ==
    /\ req[r].pc = "gc_chat"
    /\ req' = [req EXCEPT ![r] =
           IF ~\E d \in Chats : d.id = req[r].chatId
           THEN [@ EXCEPT !.pc = "done", !.status = 404]
           ELSE [@ EXCEPT !.chat = [id |-> req[r].chatId],
                          !.pc = "gc_participants"]]
    /\ UNCHANGED <<Chats, ChatParticipants, Messages, clock>>

\* lines 299-308: the participants of the chat
GetChatParticipants(r) ==
    /\ req[r].pc = "gc_participants"
    /\ req' = [req EXCEPT ![r].pc = "gc_messages"]
    /\ UNCHANGED <<Chats, ChatParticipants, Messages, clock>>

\* lines 310-323: `const [messages]` is the newest message of the chat
GetChatSelect(r) ==
    /\ req[r].pc = "gc_messages"
    /\ req' = [req EXCEPT
           ![r].messages = FirstRow(MessageRows(req[r].chatId, DefaultLimit, 0)),
           ![r].pc = "gc_mark"]
    /\ UNCHANGED <<Chats, ChatParticipants, Messages, clock>>

\* lines 325-333: mark the messages of the others as read
GetChatMarkRead(r) ==
    /\ req[r].pc = "gc_mark"
    /\ Messages' = MarkRead(Messages, req[r].chatId, req[r].user)
    /\ req' = [req EXCEPT ![r].pc = "gc_respond"]
    /\ UNCHANGED <<Chats, ChatParticipants, clock>>

\* lines 335-345: messages.reverse() and the response, or the catch
GetChatRespond(r) ==
    /\ req[r].pc = "gc_respond"
    /\ req' = [req EXCEPT ![r] =
           IF ~HasReverse(req[r].messages)
           THEN [@ EXCEPT !.pc = "done", !.status = 500]
           ELSE [@ EXCEPT !.pc = "done", !.status = 200,
                          !.resChat = req[r].chatId,
                          !.resMessages = req[r].messages]]
    /\ UNCHANGED <<Chats, ChatParticipants, Messages, clock>>

\* lines 658-677: the requester has to be a participant
GetChatMessagesStart(r) ==
    /\ Free(r)
    /\ \E u \in Users, c \in ChatIds, page \in Pages :
         LET base == [IdleReq EXCEPT !.h = "getChatMessages", !.user = u,
                                     !.chatId = c, !.page = page]
         IN  req' = [req EXCEPT ![r] =
                 IF ~HasLink(ChatParticipants, c, u)
                 THEN [base EXCEPT !.pc = "done", !.status = 403]
                 ELSE [base EXCEPT !.isParticipant = TRUE, !.pc = "gm_messages"]]
    /\ UNCHANGED <<Chats, ChatParticipants, Messages, clock>>

\* lines 679-692: `const [messages]` is the first row of the page
GetChatMessagesSelect(r) ==
    /\ req[r].pc = "gm_messages"
    /\ req' = [req EXCEPT
           ![r].messages = FirstRow(MessageRows(req[r].chatId, DefaultLimit,
                                                (req[r].page - 1) * DefaultLimit)),
           ![r].pc = "gm_mark"]
    /\ UNCHANGED <<Chats, ChatParticipants, Messages, clock>>

\* lines 694-702: mark the messages of the others as read
GetChatMessagesMarkRead(r) ==
    /\ req[r].pc = "gm_mark"
    /\ Messages' = MarkRead(Messages, req[r].chatId, req[r].user)
    /\ req' = [req EXCEPT ![r].pc = "gm_respond"]
    /\ UNCHANGED <<Chats, ChatParticipants, clock>>

\* lines 704-713: messages.reverse() and the response, or the catch
GetChatMessagesRespond(r) ==
    /\ req[r].pc = "gm_respond"
    /\ req' = [req EXCEPT ![r] =
           IF ~HasReverse(req[r].messages)
           THEN [@ EXCEPT !.pc = "done", !.status = 500]
           ELSE [@ EXCEPT !.pc = "done", !.status = 200,
                          !.resMessages = req[r].messages]]
    /\ UNCHANGED <<Chats, ChatParticipants, Messages, clock>>

\* --------------------------------------------------------- addParticipant
\* a rollback that answers every error with 500
FailWith500(q, code) == [q EXCEPT !.pc = "done", !.status = 500,
                                  !.tx.state = "rolledback"]

\* t.rollback() and the error response
Fail(q, code) == [q EXCEPT !.pc = "done", !.status = code,
                           !.tx.state = "rolledback"]

\* lines 430-449: open the transaction, SELECT the chat
AddParticipantStart(r) ==
    /\ Free(r)
    /\ \E u \in Users, c \in ChatIds, userId \in UserIds :
         LET base == [IdleReq EXCEPT !.h = "addParticipant", !.user = u,
                                     !.chatId = c, !.userId = userId,
                                     !.tx = OpenTx]
             rows == { d \in Chats : d.id = c }
         IN  req' = [req EXCEPT ![r] =
                 IF rows = {} THEN Fail(base, 404)
                 ELSE [base EXCEPT !.chat = [id |-> c], !.pc = "ap_member"]]
    /\ UNCHANGED <<Chats, ChatParticipants, Messages, clock>>

\* lines 451-464: the caller has to be a participant
AddParticipantMember(r) ==
    /\ req[r].pc = "ap_member"
    /\ LET isParticipant == HasLink(VisibleLinks(r), req[r].chatId, req[r].user)
       IN  req' = [req EXCEPT ![r] =
               IF ~isParticipant THEN Fail(@, 403)
               ELSE [@ EXCEPT !.isParticipant = TRUE, !.pc = "ap_user"]]
    /\ UNCHANGED <<Chats, ChatParticipants, Messages, clock>>

\* lines 466-478: the user to add has to exist
AddParticipantUser(r) ==
    /\ req[r].pc = "ap_user"
    /\ LET userExists == req[r].userId \in Users
       IN  req' = [req EXCEPT ![r] =
               IF ~userExists THEN Fail(@, 404)
               ELSE [@ EXCEPT !.pc = "ap_already"]]
    /\ UNCHANGED <<Chats, ChatParticipants, Messages, clock>>

\* lines 480-493: the user must not be a participant yet
AddParticipantAlready(r) ==
    /\ req[r].pc = "ap_already"
    /\ LET alreadyParticipant ==
               HasLink(VisibleLinks(r), req[r].chatId, req[r].userId)
       IN  req' = [req EXCEPT ![r] =
               IF alreadyParticipant THEN Fail(@, 400)
               ELSE [@ EXCEPT !.pc = "ap_insert"]]
    /\ UNCHANGED <<Chats, ChatParticipants, Messages, clock>>

\* lines 495-503: INSERT INTO "ChatParticipants"
AddParticipantInsert(r) ==
    /\ req[r].pc = "ap_insert"
    /\ req' = [req EXCEPT ![r].tx.ChatParticipants = @ (+)
                    SetToBag({ Link(req[r].userId, req[r].chatId) }),
                          ![r].pc = "ap_message"]
    /\ UNCHANGED <<Chats, ChatParticipants, Messages, clock>>

\* lines 505-517: the system message, written as read and as sent by the caller
AddParticipantMessage(r) ==
    /\ req[r].pc = "ap_message"
    /\ \E id \in FreshMessageIds :
         req' = [req EXCEPT ![r].tx.Messages = @ \cup
                     { [id |-> id, chatId |-> req[r].chatId,
                        userId |-> req[r].user, content |-> JoinNotice,
                        read |-> TRUE, createdAt |-> req[r].tx.now] },
                            ![r].messageId = id,
                            ![r].pc = "ap_update"]
    /\ UNCHANGED <<Chats, ChatParticipants, Messages, clock>>

\* lines 519-528: UPDATE "Chats" SET "lastMessageAt" = NOW() in the transaction
AddParticipantUpdate(r) ==
    /\ req[r].pc = "ap_update"
    /\ ~ChatLocked(r, req[r].chatId)
    /\ req' = [req EXCEPT ![r].tx.touched = @ \cup { req[r].chatId },
                          ![r].pc = "ap_commit"]
    /\ UNCHANGED <<Chats, ChatParticipants, Messages, clock>>

\* lines 530-535: t.commit() and the 200 response
AddParticipantCommit(r) ==
    /\ req[r].pc = "ap_commit"
    /\ Chats' = CommitChats(req[r].tx)
    /\ ChatParticipants' = CommitLinks(req[r].tx)
    /\ Messages' = CommitMessages(req[r].tx)
    /\ req' = [req EXCEPT ![r].tx.state = "committed",
                          ![r].pc = "done", ![r].status = 200]
    /\ clock' = Later(req[r].tx)

\* lines 495-528 and 536-540: a statement of the transaction fails; the catch
\* block rolls the transaction back and answers 500
AddParticipantThrows(r) ==
    /\ req[r].pc \in {"ap_insert", "ap_message", "ap_update"}
    /\ req' = [req EXCEPT ![r] = Fail(@, 500)]
    /\ UNCHANGED <<Chats, ChatParticipants, Messages, clock>>

\* lines 530 and 536-537: t.commit() of addParticipant throws
AddParticipantCommitThrows(r) ==
    /\ req[r].pc = "ap_commit"
    /\ \E applied \in BOOLEAN :
         /\ req' = [req EXCEPT ![r] = Unanswered(@, applied)]
         /\ IF applied
            THEN /\ Chats' = CommitChats(req[r].tx)
                 /\ ChatParticipants' = CommitLinks(req[r].tx)
                 /\ Messages' = CommitMessages(req[r].tx)
                 /\ clock' = Later(req[r].tx)
            ELSE UNCHANGED <<Chats, ChatParticipants, Messages, clock>>

\* -------------------------------------------------------------- leaveChat
\* an array pattern `[[{ count }]]` needs an iterable first element; the
\* first element of a SELECT result is a row object
Iterable(v) == "length" \in DOMAIN v

\* lines 545-563: open the transaction, SELECT the chat
LeaveChatStart(r) ==
    /\ Free(r)
    /\ \E u \in Users, c \in ChatIds :
         LET base == [IdleReq EXCEPT !.h = "leaveChat", !.user = u,
                                     !.chatId = c, !.tx = OpenTx]
             rows == { d \in Chats : d.id = c }
         IN  req' = [req EXCEPT ![r] =
                 IF rows = {} THEN Fail(base, 404)
                 ELSE [base EXCEPT !.chat = [id |-> c], !.pc = "lc_member"]]
    /\ UNCHANGED <<Chats, ChatParticipants, Messages, clock>>

\* lines 565-578: the caller has to be a participant
LeaveChatMember(r) ==
    /\ req[r].pc = "lc_member"
    /\ LET isParticipant == HasLink(VisibleLinks(r), req[r].chatId, req[r].user)
       IN  req' = [req EXCEPT ![r] =
               IF ~isParticipant THEN Fail(@, 400)
               ELSE [@ EXCEPT !.isParticipant = TRUE, !.pc = "lc_delete"]]
    /\ UNCHANGED <<Chats, ChatParticipants, Messages, clock>>

\* lines 580-588: DELETE FROM "ChatParticipants" in the transaction
LeaveChatDelete(r) ==
    /\ req[r].pc = "lc_delete"
    /\ ~\E q \in Reqs \ {r} : Link(req[r].user, req[r].chatId) \in Pending(q).deleted
    /\ req' = [req EXCEPT ![r].tx.deleted = @ \cup
                              { Link(req[r].user, req[r].chatId) },
                          ![r].pc = "lc_count"]
    /\ UNCHANGED <<Chats, ChatParticipants, Messages, clock>>

\* lines 590-598 and 650-654: SELECT COUNT(*) resolves to the array of rows
\* <<[count |-> n]>>; destructuring it with `[[{ count }]]` throws a
\* TypeError, the catch block rolls the transaction back and answers 500.
\* Lines 600-649 would run with the count only if the first element were
\* iterable.
LeaveChatCount(r) ==
    /\ req[r].pc = "lc_count"
    /\ LET rows == << [count |-> CountLinks(VisibleLinks(r), req[r].chatId)] >>
       IN  req' = [req EXCEPT ![r] =
               IF ~Iterable(rows[1]) THEN Fail(@, 500)
               ELSE [@ EXCEPT !.pc = "lc_counted", !.i = rows[1][1].count]]
    /\ UNCHANGED <<Chats, ChatParticipants, Messages, clock>>

\* ------------------------------------------------------------------- spec
\* ----------------------------------------------------------- chat context
\* the user logged in on the client
currentUser == "A"

\* no chat selected: activeChat is null
NoChat == [id |-> 0, messages |-> <<>>]

\* a sendMessage call that is not running
IdleSend == [pc |-> "idle", chatId |-> 0, content |-> <<>>, tempId |-> <<>>,
             activeChatId |-> 0, via |-> "none"]

\* contents the user types
ClientContents == { <<"h", "i">>, <<" ">> }

\* the chat the clients talk in is created by a request of its two users
ClientChatRequests == { <<"A", <<"B">>, FALSE>> }

\* a message as the client holds it (MessageType)
ClientMessage(id, senderId, content, read) ==
    [id |-> id, senderId |-> senderId, content |-> content, read |-> read]

NoMessage == ClientMessage(<<>>, NoUser, <<>>, FALSE)

\* `temp_${Date.now()}`
TempId(t) == <<"temp_", t>>

\* the id of a stored message, a uuid
ServerId(n) == <<"uuid", n>>

\* a row of "Messages" as the server sends it to clients
Canonical(m) == ClientMessage(ServerId(m.id), m.userId, m.content, m.read)

\* [message, ...messages]
Prepend(m, ms) == <<m>> \o ms

\* messages.map(msg => msg.id === tempMessage.id ? realMessage : msg)
ReplaceById(ms, id, real) ==
    [k \in 1..Len(ms) |-> IF ms[k].id = id THEN real ELSE ms[k]]

\* events on the socket
ClientEvent(type, c, content) == [type |-> type, chatId |-> c, content |-> content]
ServerEvent(type, c, m, u) ==
    [type |-> type, chatId |-> c, message |-> m, userId |-> u]

\* a REST request of the client is under way in slot r
Awaited(r) == send[r].pc = "rest_wait" \/ (r = "r1" /\ loadingChats)

\* lines 250-263: loadChats sends GET /api/chats
LoadChats ==
    /\ ~loadingChats
    /\ ~Awaited("r1")
    /\ loadingChats' = TRUE
    /\ GetChatsFor("r1", currentUser)
    /\ UNCHANGED <<chats, activeChat, connected, wire, inbox, rooms, send,
                   dateNow, toasts>>

\* lines 264-278: setChats(processedChats) with the chats of the response
LoadChatsResponse ==
    /\ loadingChats
    /\ Done("r1", "getChats")
    /\ chats' = [c \in { d.id : d \in req["r1"].resChats } |->
                    LET d == CHOOSE x \in req["r1"].resChats : x.id = c
                    IN  [k \in 1..Len(d.messages) |-> Canonical(d.messages[k])]]
    /\ loadingChats' = FALSE
    /\ UNCHANGED <<activeChat, connected, wire, inbox, rooms, send, dateNow,
                   toasts>>
    /\ UNCHANGED svars

\* ChatsPage line 167 and lines 219-230: the user picks a chat of the list;
\* the effect joins its room and asks to mark its messages as read
SelectChat ==
    /\ \E c \in DOMAIN chats :
         /\ activeChat.id # c
         /\ activeChat' = [id |-> c, messages |-> chats[c]]
         /\ wire' = wire \o << ClientEvent("join_chat", c, <<>>),
                                ClientEvent("mark_read", c, <<>>) >>
    /\ UNCHANGED <<chats, loadingChats, connected, inbox, rooms, send, dateNow,
                   toasts>>
    /\ UNCHANGED svars

\* socket.ts lines 7-47: the socket connects (or reconnects)
Connect ==
    /\ ~connected
    /\ connected' = TRUE
    /\ UNCHANGED <<chats, activeChat, loadingChats, wire, inbox, rooms, send,
                   dateNow, toasts>>
    /\ UNCHANGED svars

\* the connection drops: packets in flight are lost, the server forgets the
\* rooms of the socket
Disconnect ==
    /\ connected
    /\ connected' = FALSE
    /\ wire' = << >>
    /\ inbox' = << >>
    /\ rooms' = {}
    /\ UNCHANGED <<chats, activeChat, loadingChats, send, dateNow, toasts>>
    /\ UNCHANGED svars

\* Date.now() moves on
Tick ==
    /\ dateNow < MaxNow
    /\ dateNow' = dateNow + 1
    /\ UNCHANGED <<chats, activeChat, loadingChats, connected, wire, inbox,
                   rooms, send, toasts>>
    /\ UNCHANGED svars

\* a call of sendMessage runs in the first slot that is not busy
FreeSend(k) ==
    /\ send[k].pc \in {"idle", "done"}
    /\ k = "r1" \/ send["r1"].pc \notin {"idle", "done"}

\* lines 312-365: the optimistic entry, then the socket if it is connected
ClientSendMessage(k) ==
    /\ FreeSend(k)
    /\ activeChat.id # 0
    /\ Len(activeChat.messages) < MaxListLen
    /\ activeChat.id \in DOMAIN chats => Len(chats[activeChat.id]) < MaxListLen
    /\ \E content \in ClientContents :
         LET chatId == activeChat.id
             tempMessage == ClientMessage(TempId(dateNow), currentUser,
                                          content, FALSE)
             call == [IdleSend EXCEPT !.chatId = chatId, !.content = content,
                                      !.tempId = tempMessage.id,
                                      !.activeChatId = activeChat.id]
         IN  /\ Trim(content) # <<>>
             /\ chats' = [c \in DOMAIN chats |->
                            IF c = chatId THEN Prepend(tempMessage, chats[c])
                            ELSE chats[c]]
             /\ activeChat' = [activeChat EXCEPT
                                 !.messages = Prepend(tempMessage, @)]
             /\ IF connected
                THEN /\ wire' = Append(wire,
                                       ClientEvent("send_message", chatId, content))
                     /\ send' = [send EXCEPT ![k] =
                                    [call EXCEPT !.pc = "done", !.via = "socket"]]
                ELSE /\ wire' = wire
                     /\ send' = [send EXCEPT ![k] = [call EXCEPT !.pc = "rest"]]
    /\ UNCHANGED <<loadingChats, connected, inbox, rooms, dateNow, toasts>>
    /\ UNCHANGED svars

\* line 368: POST /api/chats/:chatId/messages reaches the server
RestRequest(k) ==
    /\ send[k].pc = "rest"
    /\ ~Awaited(k)
    /\ SendMessageFor(k, currentUser, send[k].chatId, send[k].content)
    /\ send' = [send EXCEPT ![k].pc = "rest_wait"]
    /\ UNCHANGED <<chats, activeChat, loadingChats, connected, wire, inbox,
                   rooms, dateNow, toasts>>

\* the toasts of a failed request: one of apiRequest (api.ts lines 74-86),
\* one of the catch of sendMessage (lines 407-414)
FailedSend(k) ==
    /\ send' = [send EXCEPT ![k].pc = "done", ![k].via = "failed"]
    /\ toasts' = toasts + 2
    /\ UNCHANGED <<chats, activeChat>>

\* line 368: the request fails before it reaches the server
RestError(k) ==
    /\ send[k].pc = "rest"
    /\ FailedSend(k)
    /\ UNCHANGED <<loadingChats, connected, wire, inbox, rooms, dateNow>>
    /\ UNCHANGED svars

\* lines 368-414: the response of the server
RestResponse(k) ==
    /\ send[k].pc = "rest_wait"
    /\ Done(k, "sendMessage")
    /\ IF req[k].status # 201
       THEN FailedSend(k)
       ELSE /\ send' = [send EXCEPT ![k].pc = "done", ![k].via = "rest"]
            /\ toasts' = toasts
            /\ IF req[k].resMessage = 0
               THEN UNCHANGED <<chats, activeChat>>
               ELSE LET row == CHOOSE m \in Messages : m.id = req[k].resMessage
                        realMessage == Canonical(row)
                    IN  /\ chats' = [c \in DOMAIN chats |->
                                       IF c = send[k].chatId
                                       THEN ReplaceById(chats[c], send[k].tempId,
                                                        realMessage)
                                       ELSE chats[c]]
                        /\ activeChat' =
                              IF send[k].activeChatId = send[k].chatId
                                 /\ activeChat # NoChat
                              THEN [activeChat EXCEPT !.messages =
                                      ReplaceById(@, send[k].tempId, realMessage)]
                              ELSE activeChat
    /\ UNCHANGED <<loadingChats, connected, wire, inbox, rooms, dateNow>>
    /\ UNCHANGED svars

\* lines 121-155: the new_message handler
OnNewMessage ==
    /\ connected
    /\ inbox # << >>
    /\ Head(inbox).type = "new_message"
    /\ LET message == Head(inbox).message
           chatId == Head(inbox).chatId
       IN  /\ chats' = [c \in DOMAIN chats |->
                          IF c = chatId THEN Prepend(message, chats[c])
                          ELSE chats[c]]
           /\ IF activeChat # NoChat /\ activeChat.id = chatId
              THEN /\ activeChat' = [activeChat EXCEPT
                                       !.messages = Prepend(message, @)]
                   /\ wire' = Append(wire, ClientEvent("mark_read", chatId, <<>>))
              ELSE UNCHANGED <<activeChat, wire>>
    /\ inbox' = Tail(inbox)
    /\ UNCHANGED <<loadingChats, connected, rooms, send, dateNow, toasts>>
    /\ UNCHANGED svars

\* lines 190-209: the messages_read handler
OnMessagesRead ==
    /\ connected
    /\ inbox # << >>
    /\ Head(inbox).type = "messages_read"
    /\ activeChat' =
          IF activeChat # NoChat /\ activeChat.id = Head(inbox).chatId
          THEN [activeChat EXCEPT !.messages =
                  [k \in 1..Len(@) |-> [@[k] EXCEPT !.read = TRUE]]]
          ELSE activeChat
    /\ inbox' = Tail(inbox)
    /\ UNCHANGED <<chats, loadingChats, connected, wire, rooms, send, dateNow,
                   toasts>>
    /\ UNCHANGED svars

\* ------------------------------------------------- real-time channel (server)
\* the events a room receives reach this client when its socket is in the room
ToRoom(c, e) == IF c \in rooms THEN Append(inbox, e) ELSE inbox

\* join_chat: the socket joins the room once the user is confirmed as a
\* participant of the chat
ServerJoinChat ==
    /\ connected
    /\ wire # << >>
    /\ Head(wire).type = "join_chat"
    /\ rooms' = IF HasLink(ChatParticipants, Head(wire).chatId, currentUser)
                 THEN rooms \cup { Head(wire).chatId } ELSE rooms
    /\ wire' = Tail(wire)
    /\ UNCHANGED <<chats, activeChat, loadingChats, connected, inbox, send,
                   dateNow, toasts>>
    /\ UNCHANGED svars

\* mark_read: the read-marking of the message log, then messages_read to the room
ServerMarkRead ==
    /\ connected
    /\ wire # << >>
    /\ Head(wire).type = "mark_read"
    /\ LET c == Head(wire).chatId
       IN  IF HasLink(ChatParticipants, c, currentUser)
           THEN /\ Messages' = MarkRead(Messages, c, currentUser)
                /\ inbox' = ToRoom(c, ServerEvent("messages_read", c, NoMessage,
                                                  currentUser))
           ELSE UNCHANGED <<Messages, inbox>>
    /\ wire' = Tail(wire)
    /\ UNCHANGED <<chats, activeChat, loadingChats, connected, rooms, send,
                   dateNow, toasts>>
    /\ UNCHANGED <<Chats, ChatParticipants, clock, req>>

\* send_message: append to the message log, then new_message to the room,
\* the sender's own socket included
ServerSendMessage ==
    /\ connected
    /\ wire # << >>
    /\ Head(wire).type = "send_message"
    /\ LET c == Head(wire).chatId
           content == Head(wire).content
       IN  IF /\ Trim(content) # <<>>
              /\ \E d \in Chats : d.id = c
              /\ HasLink(ChatParticipants, c, currentUser)
           THEN \E id \in FreshMessageIds :
                  LET row == [id |-> id, chatId |-> c, userId |-> currentUser,
                              content |-> content, read |-> FALSE,
                              createdAt |-> clock]
                  IN  /\ Messages' = Messages \cup {row}
                      /\ Chats' = TouchChat(Chats, c, clock)
                      /\ clock' = clock + 1
                      /\ inbox' = ToRoom(c, ServerEvent("new_message", c,
                                                        Canonical(row), currentUser))
           ELSE UNCHANGED <<Messages, Chats, clock, inbox>>
    /\ wire' = Tail(wire)
    /\ UNCHANGED <<chats, activeChat, loadingChats, connected, rooms, send,
                   dateNow, toasts>>
    /\ UNCHANGED <<ChatParticipants, req>>

\* the state of ChatProvider after mounting: no chats, no active chat
InitClient ==
    /\ chats = << >>
    /\ activeChat = NoChat
    /\ loadingChats = FALSE
    /\ connected = FALSE
    /\ wire = << >>
    /\ inbox = << >>
    /\ rooms = {}
    /\ send = [r \in Reqs |-> IdleSend]
    /\ dateNow = 1
    /\ toasts = 0

\* ---------------------------------------------------------------- session
\* `let socket: Socket | null = null`
NoSocket == [state |-> "null", token |-> NoUser]

\* the users whose presence the server announces
StatusUsers == {"B", "C"}

\* socket.ts lines 7-47: a socket is created only when there is none
initializeSocket(sock, tok) ==
    IF sock = NoSocket /\ tok # NoUser
    THEN [state |-> "connecting", token |-> tok]
    ELSE sock

\* part_003 lines 100-103: a user logs in, the effect of [currentUser] runs
Login ==
    /\ token = NoUser
    /\ \E u \in {"A", "B"} :
         /\ token' = u
         /\ socket' = initializeSocket(socket, u)
    /\ UNCHANGED <<onlineUsers, presence>>

\* part_003 lines 104-109: the user logs out, the cleanup of the effect
\* calls socket.disconnect(); the variable of socket.ts keeps the socket
Logout ==
    /\ token # NoUser
    /\ token' = NoUser
    /\ socket' = IF socket = NoSocket THEN socket
                  ELSE [socket EXCEPT !.state = "disconnected"]
    /\ UNCHANGED <<onlineUsers, presence>>

\* socket.ts lines 23-25: the socket is connected
OnConnect ==
    /\ socket.state = "connecting"
    /\ socket' = [socket EXCEPT !.state = "connected"]
    /\ UNCHANGED <<token, onlineUsers, presence>>

\* socket.ts lines 17-19 and 27-29: the connection is lost and the socket
\* tries again; a socket closed by disconnect() does not
OnDisconnect ==
    /\ socket.state = "connected"
    /\ socket' = [socket EXCEPT !.state = "connecting"]
    /\ UNCHANGED <<token, onlineUsers, presence>>

\* prev.filter(id => id !== userId)
Without(s, u) == SelectSeq(s, LAMBDA id : id # u)

\* part_003 lines 157-188: the user_status_change handler
OnUserStatusChange ==
    /\ token # NoUser
    /\ socket.state = "connected"
    /\ \E u \in StatusUsers, isOnline \in BOOLEAN :
         /\ isOnline => Len(onlineUsers) < MaxOnline
         /\ presence' = [presence EXCEPT ![u] = isOnline]
         /\ onlineUsers' = IF isOnline THEN Append(onlineUsers, u)
                            ELSE Without(onlineUsers, u)
    /\ UNCHANGED <<token, socket>>

InitSession ==
    /\ token = NoUser
    /\ socket = NoSocket
    /\ onlineUsers = << >>
    /\ presence = [u \in StatusUsers |-> FALSE]

\* a step of the session
SessionStep(A) ==
    /\ A
    /\ UNCHANGED <<svars, cvars, reconnecting, servicevars>>

\* ----------------------------------------------------------- chat service
\* a chat of the service (ChatType)
ServiceChat(id, name, participants, isGroup) ==
    [id |-> id, name |-> name, participants |-> participants,
     isGroup |-> isGroup]

NoServiceChat == ServiceChat(<<>>, <<>>, <<>>, FALSE)

\* a createChat call that is not running
IdleCall == [pc |-> "idle", participantIds |-> <<>>, name |-> <<>>,
             result |-> NoServiceChat]

\* the names a caller passes: none, or the name of the other participant
ServiceNames == { <<>>, <<"n">> }

\* !!name
Truthy(name) == name # <<>>

\* the private chat of the two users, lines 127-132 of socket.ts:
\* CHATS.find(chat => !chat.isGroup && chat.participants.length === 2 && ...)
FindPrivateChat(list, participantIds) ==
    LET hits == { i \in 1..Len(list) :
                    /\ ~list[i].isGroup
                    /\ Len(list[i].participants) = 2
                    /\ Includes(list[i].participants, participantIds[1])
                    /\ Includes(list[i].participants, participantIds[2]) }
    IN  IF hits = {} THEN 0 ELSE CHOOSE i \in hits : \A j \in hits : i <= j

\* socket.ts lines 122-123: createChat(participantIds, name) is called and
\* waits for its timer
ServiceCreateChat(k, participantIds, name) ==
    /\ calls[k].pc \in {"idle", "done"}
    /\ calls' = [calls EXCEPT ![k] =
                    [IdleCall EXCEPT !.pc = "waiting",
                                     !.participantIds = participantIds,
                                     !.name = name]]
    /\ UNCHANGED CHATS

\* a component creates the private chat of two users in the service
CreateServiceChat(k) ==
    \E participantIds \in { <<"A", "B">>, <<"B", "A">> } :
        ServiceCreateChat(k, participantIds, <<>>)

\* part_004 lines 424-427: the fallback of createPrivateChat,
\* createServiceChat([currentUser.id, participantId], participantName || '')
CreatePrivateChatFallback(k) ==
    \E participantName \in ServiceNames :
        ServiceCreateChat(k, <<currentUser, "B">>, participantName)

\* socket.ts lines 125-154: after the timer, in one piece: the lookup of the
\* private chat, or the new chat appended to CHATS
ServiceCreateChatResume(k) ==
    /\ calls[k].pc = "waiting"
    /\ LET participantIds == calls[k].participantIds
           name == calls[k].name
           isGroup == Len(participantIds) > 2 \/ Truthy(name)
           existing == IF ~isGroup /\ Len(participantIds) = 2
                       THEN FindPrivateChat(CHATS, participantIds) ELSE 0
           newChat == ServiceChat(<<"chat", dateNow>>, name, participantIds,
                                  isGroup)
       IN  IF existing # 0
           THEN /\ calls' = [calls EXCEPT ![k].pc = "done",
                                           ![k].result = CHATS[existing]]
                /\ UNCHANGED CHATS
           ELSE /\ Len(CHATS) < MaxServiceChats
                /\ CHATS' = Append(CHATS, newChat)
                /\ calls' = [calls EXCEPT ![k].pc = "done",
                                           ![k].result = newChat]

InitService ==
    /\ CHATS = << >>
    /\ calls = [k \in Reqs |-> IdleCall]

\* a step of the chat service
ServiceStep(A) ==
    /\ A
    /\ UNCHANGED <<svars, cvars, reconnecting, sessvars>>

\* ------------------------------------------------------------------- spec
Init ==
    /\ Chats = {}
    /\ ChatParticipants = EmptyBag
    /\ Messages = {}
    /\ clock = 1
    /\ req = [r \in Reqs |-> IdleReq]
    /\ InitClient
    /\ reconnecting = FALSE
    /\ InitSession
    /\ InitService

\* a step of the server alone, in a store of at most n messages
ServerStep(A, n) ==
    /\ A
    /\ Cardinality(UsedMessageIds') <= n
    /\ UNCHANGED cvars
    /\ UNCHANGED xvars

\* a step of the chat context
ClientStep(A) ==
    /\ A
    /\ UNCHANGED xvars

\* socket.ts lines 17-19 and 27-29: the connection is lost, the socket
\* starts its reconnection attempts
SocketDrop ==
    /\ Disconnect
    /\ reconnecting' = TRUE
    /\ UNCHANGED <<sessvars, servicevars>>

\* socket.ts lines 23-25 and 36-38: the socket is connected (again); the
\* handlers of 'connect' and 'reconnect' write to the log
SocketConnect ==
    /\ Connect
    /\ reconnecting' = FALSE
    /\ UNCHANGED <<sessvars, servicevars>>

CreateChatSteps(r) ==
    \/ CreateChatLookup(r)
    \/ CreateChatInsert(r)
    \/ CreateChatAddParticipant(r)
    \/ CreateChatCommit(r)

SendMessageSteps(r) ==
    \/ SendMessageStart(r)
    \/ SendMessageMember(r)
    \/ SendMessageInsert(r)
    \/ SendMessageUpdate(r)
    \/ SendMessageRespond(r)

AddParticipantSteps(r) ==
    \/ AddParticipantStart(r)
    \/ AddParticipantMember(r)
    \/ AddParticipantUser(r)
    \/ AddParticipantAlready(r)
    \/ AddParticipantInsert(r)
    \/ AddParticipantMessage(r)
    \/ AddParticipantUpdate(r)
    \/ AddParticipantCommit(r)

LeaveChatSteps(r) ==
    \/ LeaveChatStart(r)
    \/ LeaveChatMember(r)
    \/ LeaveChatDelete(r)
    \/ LeaveChatCount(r)

GetChatSteps(r) ==
    \/ GetChatStart(r)
    \/ GetChatDetails(r)
    \/ GetChatParticipants(r)
    \/ GetChatSelect(r)
    \/ GetChatMarkRead(r)
    \/ GetChatRespond(r)

GetChatMessagesSteps(r) ==
    \/ GetChatMessagesStart(r)
    \/ GetChatMessagesSelect(r)
    \/ GetChatMessagesMarkRead(r)
    \/ GetChatMessagesRespond(r)

\* one request at a time, every handler
Next ==
    \/ ServerStep(CreateChatStart("r1", CreateChatRequests), MaxMessages)
    \/ ServerStep(CreateChatLookup("r1"), MaxMessages)
    \/ ServerStep(CreateChatInsert("r1"), MaxMessages)
    \/ ServerStep(CreateChatAddParticipant("r1"), MaxMessages)
    \/ ServerStep(CreateChatCommit("r1"), MaxMessages)
    \/ ServerStep(GetChats("r1"), MaxMessages)
    \/ ServerStep(SendMessageStart("r1"), MaxMessages)
    \/ ServerStep(SendMessageMember("r1"), MaxMessages)
    \/ ServerStep(SendMessageInsert("r1"), MaxMessages)
    \/ ServerStep(SendMessageUpdate("r1"), MaxMessages)
    \/ ServerStep(SendMessageRespond("r1"), MaxMessages)
    \/ ServerStep(AddParticipantStart("r1"), MaxMessages)
    \/ ServerStep(AddParticipantMember("r1"), MaxMessages)
    \/ ServerStep(AddParticipantUser("r1"), MaxMessages)
    \/ ServerStep(AddParticipantAlready("r1"), MaxMessages)
    \/ ServerStep(AddParticipantInsert("r1"), MaxMessages)
    \/ ServerStep(AddParticipantMessage("r1"), MaxMessages)
    \/ ServerStep(AddParticipantUpdate("r1"), MaxMessages)
    \/ ServerStep(AddParticipantCommit("r1"), MaxMessages)
    \/ ServerStep(LeaveChatStart("r1"), MaxMessages)
    \/ ServerStep(LeaveChatMember("r1"), MaxMessages)
    \/ ServerStep(LeaveChatDelete("r1"), MaxMessages)
    \/ ServerStep(LeaveChatCount("r1"), MaxMessages)
    \/ ServerStep(GetChatStart("r1"), MaxMessages)
    \/ ServerStep(GetChatDetails("r1"), MaxMessages)
    \/ ServerStep(GetChatParticipants("r1"), MaxMessages)
    \/ ServerStep(GetChatSelect("r1"), MaxMessages)
    \/ ServerStep(GetChatMarkRead("r1"), MaxMessages)
    \/ ServerStep(GetChatRespond("r1"), MaxMessages)
    \/ ServerStep(GetChatMessagesStart("r1"), MaxMessages)
    \/ ServerStep(GetChatMessagesSelect("r1"), MaxMessages)
    \/ ServerStep(GetChatMessagesMarkRead("r1"), MaxMessages)
    \/ ServerStep(GetChatMessagesRespond("r1"), MaxMessages)

Spec == Init /\ [][Next]_vars

\* two concurrent requests that create chats
NextRace ==
    \E r \in Reqs :
        \/ ServerStep(CreateChatStart(r, RaceRequests), MaxMessages)
        \/ ServerStep(CreateChatLookup(r), MaxMessages)
        \/ ServerStep(CreateChatInsert(r), MaxMessages)
        \/ ServerStep(CreateChatAddParticipant(r), MaxMessages)
        \/ ServerStep(CreateChatCommit(r), MaxMessages)

SpecRace == Init /\ [][NextRace]_vars

\* one request at a time: chats are created and messages are sent
NextMessages ==
    \/ ServerStep(CreateChatStart("r1", MessageChatRequests), MaxMessages)
    \/ ServerStep(CreateChatLookup("r1"), MaxMessages)
    \/ ServerStep(CreateChatInsert("r1"), MaxMessages)
    \/ ServerStep(CreateChatAddParticipant("r1"), MaxMessages)
    \/ ServerStep(CreateChatCommit("r1"), MaxMessages)
    \/ ServerStep(SendMessageStart("r1"), MaxMessages)
    \/ ServerStep(SendMessageMember("r1"), MaxMessages)
    \/ ServerStep(SendMessageInsert("r1"), MaxMessages)
    \/ ServerStep(SendMessageUpdate("r1"), MaxMessages)
    \/ ServerStep(SendMessageRespond("r1"), MaxMessages)

SpecMessages == Init /\ [][NextMessages]_vars

\* one request at a time: chats are created, up to MaxMessageIds messages
\* are sent and read
NextRead ==
    \/ ServerStep(CreateChatStart("r1", MessageChatRequests), MaxMessageIds)
    \/ ServerStep(CreateChatLookup("r1"), MaxMessageIds)
    \/ ServerStep(CreateChatInsert("r1"), MaxMessageIds)
    \/ ServerStep(CreateChatAddParticipant("r1"), MaxMessageIds)
    \/ ServerStep(CreateChatCommit("r1"), MaxMessageIds)
    \/ ServerStep(SendMessageStart("r1"), MaxMessageIds)
    \/ ServerStep(SendMessageMember("r1"), MaxMessageIds)
    \/ ServerStep(SendMessageInsert("r1"), MaxMessageIds)
    \/ ServerStep(SendMessageUpdate("r1"), MaxMessageIds)
    \/ ServerStep(SendMessageRespond("r1"), MaxMessageIds)
    \/ ServerStep(GetChatStart("r1"), MaxMessageIds)
    \/ ServerStep(GetChatDetails("r1"), MaxMessageIds)
    \/ ServerStep(GetChatParticipants("r1"), MaxMessageIds)
    \/ ServerStep(GetChatSelect("r1"), MaxMessageIds)
    \/ ServerStep(GetChatMarkRead("r1"), MaxMessageIds)
    \/ ServerStep(GetChatRespond("r1"), MaxMessageIds)
    \/ ServerStep(GetChatMessagesStart("r1"), MaxMessageIds)
    \/ ServerStep(GetChatMessagesSelect("r1"), MaxMessageIds)
    \/ ServerStep(GetChatMessagesMarkRead("r1"), MaxMessageIds)
    \/ ServerStep(GetChatMessagesRespond("r1"), MaxMessageIds)

SpecRead == Init /\ [][NextRead]_vars

\* two requests at a time on one group chat: messages are sent, participants
\* are added and leave, statements of addParticipant can fail
NextGroup ==
    \/ ServerStep(/\ Chats = {}
                  /\ CreateChatStart("r1", GroupChatRequests), MaxMessages)
    \/ ServerStep(CreateChatInsert("r1"), MaxMessages)
    \/ ServerStep(CreateChatAddParticipant("r1"), MaxMessages)
    \/ ServerStep(CreateChatCommit("r1"), MaxMessages)
    \/ ServerStep(CreateChatCommitThrows("r1"), MaxMessages)
    \/ \E r \in Reqs : ServerStep(/\ SendMessageStart(r)
                                   /\ req'[r].content = <<"h", "i">>
                                   /\ req'[r].chatId = 1,
                                   MaxMessages)
    \/ \E r \in Reqs : ServerStep(SendMessageMember(r), MaxMessages)
    \/ \E r \in Reqs : ServerStep(SendMessageInsert(r), MaxMessages)
    \/ \E r \in Reqs : ServerStep(SendMessageUpdate(r), MaxMessages)
    \/ \E r \in Reqs : ServerStep(SendMessageRespond(r), MaxMessages)
    \/ \E r \in Reqs : ServerStep(/\ AddParticipantStart(r)
                                   /\ req'[r].chatId = 1,
                                   MaxMessages)
    \/ \E r \in Reqs : ServerStep(AddParticipantMember(r), MaxMessages)
    \/ \E r \in Reqs : ServerStep(AddParticipantUser(r), MaxMessages)
    \/ \E r \in Reqs : ServerStep(AddParticipantAlready(r), MaxMessages)
    \/ \E r \in Reqs : ServerStep(AddParticipantInsert(r), MaxMessages)
    \/ \E r \in Reqs : ServerStep(AddParticipantMessage(r), MaxMessages)
    \/ \E r \in Reqs : ServerStep(AddParticipantUpdate(r), MaxMessages)
    \/ \E r \in Reqs : ServerStep(AddParticipantCommit(r), MaxMessages)
    \/ \E r \in Reqs : ServerStep(AddParticipantThrows(r), MaxMessages)
    \/ \E r \in Reqs : ServerStep(AddParticipantCommitThrows(r), MaxMessages)
    \/ \E r \in Reqs : ServerStep(/\ LeaveChatStart(r)
                                   /\ req'[r].chatId = 1,
                                   MaxMessages)
    \/ \E r \in Reqs : ServerStep(LeaveChatMember(r), MaxMessages)
    \/ \E r \in Reqs : ServerStep(LeaveChatDelete(r), MaxMessages)
    \/ \E r \in Reqs : ServerStep(LeaveChatCount(r), MaxMessages)

SpecGroup == Init /\ [][NextGroup]_vars

\* the client of one user over the server: the chat is created, the client
\* loads its chats, picks one and sends messages by socket or by REST
NextClient ==
    \/ ServerStep(/\ ~Awaited("r1")
                  /\ Chats = {}
                  /\ CreateChatStart("r1", ClientChatRequests), MaxMessageIds)
    \/ ServerStep(CreateChatLookup("r1"), MaxMessageIds)
    \/ ServerStep(CreateChatInsert("r1"), MaxMessageIds)
    \/ ServerStep(CreateChatAddParticipant("r1"), MaxMessageIds)
    \/ ServerStep(CreateChatCommit("r1"), MaxMessageIds)
    \/ \E r \in Reqs : ServerStep(SendMessageMember(r), MaxMessageIds)
    \/ \E r \in Reqs : ServerStep(SendMessageInsert(r), MaxMessageIds)
    \/ \E r \in Reqs : ServerStep(SendMessageUpdate(r), MaxMessageIds)
    \/ \E r \in Reqs : ServerStep(SendMessageRespond(r), MaxMessageIds)
    \/ ClientStep(DOMAIN chats = {} /\ LoadChats)
    \/ ClientStep(LoadChatsResponse)
    \/ ClientStep(SelectChat)
    \/ SocketConnect
    \/ SocketDrop
    \/ ClientStep(Tick)
    \/ \E k \in Reqs : ClientStep(ClientSendMessage(k))
    \/ \E k \in Reqs : ClientStep(RestRequest(k))
    \/ \E k \in Reqs : ClientStep(RestError(k))
    \/ \E k \in Reqs : ClientStep(RestResponse(k))
    \/ ClientStep(OnNewMessage)
    \/ ClientStep(OnMessagesRead)
    \/ ClientStep(ServerJoinChat)
    \/ ClientStep(ServerMarkRead)
    \/ ClientStep(ServerSendMessage)

SpecClient == Init /\ [][NextClient]_vars

\* users log in and out, the socket connects and loses its connection, the
\* server announces who is online
NextSession ==
    \/ SessionStep(Login)
    \/ SessionStep(Logout)
    \/ SessionStep(OnConnect)
    \/ SessionStep(OnDisconnect)
    \/ SessionStep(OnUserStatusChange)

SpecSession == Init /\ [][NextSession]_vars

\* createChat calls of the chat service, two at a time
NextService ==
    \/ \E k \in Reqs : ServiceStep(CreateServiceChat(k))
    \/ \E k \in Reqs : ServiceStep(CreatePrivateChatFallback(k))
    \/ \E k \in Reqs : ServiceStep(ServiceCreateChatResume(k))
    \/ ClientStep(Tick)

SpecService == Init /\ [][NextService]_vars

\* ----------------------------------------------------------------- claims
IsPrivate(c) == \E d \in Chats : d.id = c /\ ~d.isGroup
IsGroupChat(c) == \E d \in Chats : d.id = c /\ d.isGroup

\* the private chats whose participant set is `pair`
PrivateChatsOf(pair) ==
    { d \in Chats : ~d.isGroup /\ ParticipantsOf(d.id) = pair }

\* a string that is empty or holds nothing but whitespace
WhitespaceOnly(s) == \A k \in 1..Len(s) : s[k] = " "

C3_GetChatsOnlyMine ==
    \A r \in Reqs :
        Done(r, "getChats") =>
            \A c \in req[r].resChats : req[r].user \in c.participants

C7_AddParticipantPrivateRejected ==
    \A r \in Reqs :
        ( /\ Done(r, "addParticipant")
          /\ IsPrivate(req[r].chatId)
          /\ Cardinality(ParticipantsOf(req[r].chatId) \ {req[r].userId}) = 2 )
        => /\ req[r].status \in 400..499
           /\ req[r].tx.state # "committed"

\* C8: leaveChat on a private chat of two users fails with a client error
\* (the operation is invalid for the chat) and commits nothing.
C8_LeaveChatPrivateRejected ==
    \A r \in Reqs :
        ( /\ Done(r, "leaveChat")
          /\ IsPrivate(req[r].chatId)
          /\ Cardinality(ParticipantsOf(req[r].chatId)) = 2 )
        => /\ req[r].status \in 400..499
           /\ req[r].tx.state # "committed"

\* C9: leaveChat by a participant of a group chat answers 200 and deletes
\* the caller's participant row; with no participant left the chat and its
\* messages are gone, otherwise the chat is kept and the call added exactly
\* one leave notice.
C9_LeaveChatGroupSucceeds ==
    \A r \in Reqs :
        (Done(r, "leaveChat") /\ req[r].isParticipant /\ IsGroupChat(req[r].chatId))
        => /\ req[r].status = 200
           /\ req[r].tx.state = "committed"
           /\ ~HasLink(ChatParticipants, req[r].chatId, req[r].user)
           /\ IF ParticipantsOf(req[r].chatId) = {}
              THEN /\ ~\E d \in Chats : d.id = req[r].chatId
                   /\ ~\E m \in Messages : m.chatId = req[r].chatId
              ELSE /\ \E d \in Chats : d.id = req[r].chatId
                   /\ Cardinality(req[r].tx.Messages) = 1
                   /\ \A m \in req[r].tx.Messages : m.content = LeaveNotice

\* C10: a sendMessage whose content is empty or whitespace-only answers 400,
\* one for a chat that does not exist answers 404, one by a user who is not
\* a participant answers 403; a request that answers 400, 403 or 404 has
\* inserted no message, and only a request past all three checks writes to
\* "Messages" or "Chats".
C10_SendMessageFailsClean ==
    [][\A r \in Reqs :
         LET p == req[r]
             q == req'[r]
         IN  (q # p /\ q.h = "sendMessage") =>
               /\ (p.pc \in {"idle", "done"} /\ WhitespaceOnly(q.content))
                     => (q.pc = "done" /\ q.status = 400)
               /\ ( /\ p.pc \in {"idle", "done"}
                    /\ ~WhitespaceOnly(q.content)
                    /\ ~\E d \in Chats : d.id = q.chatId )
                     => (q.pc = "done" /\ q.status = 404)
               /\ ( /\ p.pc = "sm_member"
                    /\ ~BagIn(Link(p.user, p.chatId), ChatParticipants) )
                     => (q.pc = "done" /\ q.status = 403)
               /\ (q.pc = "done" /\ q.status \in {400, 403, 404})
                     => (q.messageId = 0 /\ UNCHANGED <<Chats, Messages>>)
               /\ (Messages' # Messages \/ Chats' # Chats)
                     => /\ p.pc \in {"sm_insert", "sm_update"}
                        /\ p.pc = "sm_update" => p.messageId # 0
                        /\ ~WhitespaceOnly(p.content)
                        /\ BagIn(Link(p.user, p.chatId), ChatParticipants)
      ]_vars

\* C10 witness: a user who is no participant of an existing chat was refused
C10_Refused ==
    \E r \in Reqs :
        /\ Done(r, "sendMessage")
        /\ req[r].status = 403
        /\ \E d \in Chats : d.id = req[r].chatId
        /\ ~HasLink(ChatParticipants, req[r].chatId, req[r].user)

\* the message row a finished sendMessage answered with
SentMessage(r) == CHOOSE m \in Messages : m.id = req[r].resMessage

\* the chat row a request names
ChatRow(c) == CHOOSE d \in Chats : d.id = c

\* C11 (as stated): a sendMessage answered 201 has persisted one message of
\* the sender in the chat, answers with that message's id, and the chat's
\* lastMessageAt is the createdAt of that message.
C11_LastMessageAtIsMessageTime ==
    \A r \in Reqs :
        (Done(r, "sendMessage") /\ req[r].status = 201)
        => /\ Cardinality({ m \in Messages : m.id = req[r].resMessage }) = 1
           /\ SentMessage(r).userId = req[r].user
           /\ SentMessage(r).chatId = req[r].chatId
           /\ ChatRow(req[r].chatId).lastMessageAt = SentMessage(r).createdAt

\* C11 (amended): a successful sendMessage by participant S in chat C adds
\* exactly one row to "Messages", with a fresh id, read=false, sender S, chat
\* C and the content sent; it sets C's lastMessageAt to the time of its
\* UPDATE statement, which is not earlier than the message's createdAt, and
\* touches no other chat; it answers 201 with the id of the row it inserted.
C11_SendMessagePersists ==
    [][\A r \in Reqs :
         LET p == req[r]
             q == req'[r]
         IN  (q # p /\ p.h = "sendMessage" /\ q.h = "sendMessage") =>
               /\ p.pc = "sm_insert" =>
                     \E m \in Messages' :
                        /\ Messages' = Messages \cup {m}
                        /\ \A k \in Messages : k.id # m.id
                        /\ m.id = q.messageId
                        /\ ~m.read
                        /\ m.userId = p.user /\ m.chatId = p.chatId
                        /\ m.content = p.content
                        /\ m.createdAt = clock
                        /\ UNCHANGED Chats
               /\ p.pc = "sm_update" =>
                     /\ UNCHANGED Messages
                     /\ \A d \in Chats' :
                           IF d.id = p.chatId
                           THEN /\ d.lastMessageAt = clock
                                /\ \A m \in Messages : m.id = p.messageId
                                      => d.lastMessageAt >= m.createdAt
                           ELSE d \in Chats
                     /\ \E d \in Chats' : d.id = p.chatId
               /\ p.pc \notin {"sm_insert", "sm_update"} =>
                     UNCHANGED <<Chats, Messages>>
               /\ (q.pc = "done" /\ q.status = 201) =>
                     /\ p.pc = "sm_select"
                     /\ q.resMessage = p.messageId
                     /\ \E m \in Messages : m.id = q.resMessage
      ]_vars

\* C11 witness: a sendMessage was answered 201 and its message is stored
C11_Sent ==
    \E r \in Reqs :
        /\ Done(r, "sendMessage")
        /\ req[r].status = 201
        /\ \E m \in Messages :
              /\ m.id = req[r].resMessage /\ ~m.read
              /\ m.userId = req[r].user /\ m.chatId = req[r].chatId

ReadHandlers == {"getChat", "getChatMessages"}

\* C12: a getChat or getChatMessages call by a user who is not a participant
\* of the chat answers 403 at its first step and changes no message; a step
\* of the two handlers that changes "Messages" is the marking step of a
\* requester who is a participant of the chat.
C12_ReadRefusedForOutsiders ==
    [][\A r \in Reqs :
         LET p == req[r]
             q == req'[r]
         IN  (q # p /\ q.h \in ReadHandlers) =>
               /\ ( /\ p.pc \in {"idle", "done"}
                    /\ ~BagIn(Link(q.user, q.chatId), ChatParticipants) )
                     => (q.pc = "done" /\ q.status = 403)
               /\ (q.pc = "done" /\ q.status = 403)
                     => (p.pc \in {"idle", "done"} /\ UNCHANGED Messages)
               /\ Messages' # Messages
                     => /\ p.pc \in {"gc_mark", "gm_mark"}
                        /\ BagIn(Link(p.user, p.chatId), ChatParticipants)
      ]_vars

\* C12 witness: a user outside a chat that holds an unread message asked
\* for it and was answered 403
C12_Outsider ==
    \E r \in Reqs :
        /\ req[r].pc = "done" /\ req[r].h \in ReadHandlers
        /\ req[r].status = 403
        /\ ~BagIn(Link(req[r].user, req[r].chatId), ChatParticipants)
        /\ \E m \in Messages : m.chatId = req[r].chatId /\ ~m.read

\* C13: a stored message whose read flag is true keeps read = true in every
\* later state, whatever handler runs.
C13_ReadNeverReverts ==
    [][\A m \in Messages :
         m.read => \A k \in Messages' : k.id = m.id => k.read]_vars

\* C13 witness: a message that was stored unread by sendMessage is read
C13_Flipped ==
    \E m \in Messages : m.read /\ m.content # JoinNotice

\* C14: the marking step of getChat and getChatMessages for requester R
\* leaves every message sent by R as it is, changes nothing but the read
\* flag of unread messages of the chat (to true), leaves every message of
\* the chat not sent by R read, and changes nothing when these were all
\* read already (a repeated call marks nothing more).
C14_MarkReadIdempotent ==
    [][\A r \in Reqs :
         LET p == req[r]
             q == req'[r]
         IN  (q # p /\ p.pc \in {"gc_mark", "gm_mark"}) =>
               /\ \A m \in Messages : m.userId = p.user => m \in Messages'
               /\ \A m \in Messages :
                     \/ m \in Messages'
                     \/ /\ ~m.read /\ m.chatId = p.chatId
                        /\ [m EXCEPT !.read = TRUE] \in Messages'
               /\ \A k \in Messages' :
                     \/ k \in Messages
                     \/ \E m \in Messages : k = [m EXCEPT !.read = TRUE]
               /\ Cardinality(Messages') = Cardinality(Messages)
               /\ \A k \in Messages' :
                     (k.chatId = p.chatId /\ k.userId # p.user) => k.read
               /\ (\A m \in Messages :
                      (m.chatId = p.chatId /\ m.userId # p.user) => m.read)
                     => UNCHANGED Messages
      ]_vars

\* C14 witness: a participant's call is over and the message the participant
\* sent to the chat is still unread
C14_OwnMessageUnread ==
    \E r \in Reqs :
        /\ req[r].pc = "done" /\ req[r].h \in ReadHandlers
        /\ req[r].isParticipant
        /\ \E m \in Messages :
              /\ m.chatId = req[r].chatId
              /\ m.userId = req[r].user /\ ~m.read

\* C15: a getChat or getChatMessages call by a participant of an existing
\* chat succeeds: it answers 200, every message of the chat that the caller
\* did not send is read afterwards, and the answer shows the chat's messages
\* as stored (so the sender, fetching after the other participant has read,
\* sees read = true).
C15_ReadThenFetch ==
    \A r \in Reqs :
        ( /\ req[r].pc = "done" /\ req[r].h \in ReadHandlers
          /\ req[r].isParticipant
          /\ \E d \in Chats : d.id = req[r].chatId )
        => /\ req[r].status = 200
           /\ \A m \in Messages :
                 (m.chatId = req[r].chatId /\ m.userId # req[r].user) => m.read
           /\ Elems(req[r].resMessages) =
                 { m \in Messages : m.chatId = req[r].chatId }

\* the optimistic entries of a list: the entries with a temporary id
IsTemp(m) == m.id # <<>> /\ m.id[1] = "temp_"
TempEntries(ms) == { k \in 1..Len(ms) : IsTemp(ms[k]) }

\* the list holds an entry with this id
HasEntry(ms, id) == \E k \in 1..Len(ms) : ms[k].id = id

\* the step is the new_message handler receiving the sender's own message
\* while the list of the chat holds an optimistic entry with its content
OwnEcho ==
    /\ connected /\ connected' /\ inbox # << >>
    /\ inbox' = Tail(inbox)
    /\ Head(inbox).type = "new_message"
    /\ Head(inbox).message.senderId = currentUser
    /\ Head(inbox).chatId \in DOMAIN chats
    /\ \E k \in TempEntries(chats[Head(inbox).chatId]) :
          chats[Head(inbox).chatId][k].content = Head(inbox).message.content

\* C16: when the client receives the new_message echo of a message it sent
\* and still shows optimistically, the canonical message takes the place of
\* the optimistic entry: the lists of the chat in chats and in activeChat do
\* not grow.
C16_EchoNotDoubled ==
    [][OwnEcho =>
         /\ Len(chats'[Head(inbox).chatId]) <= Len(chats[Head(inbox).chatId])
         /\ activeChat.id = Head(inbox).chatId
               => Len(activeChat'.messages) <= Len(activeChat.messages)
      ]_vars

\* C17: a sendMessage call that is over, with nothing of it left in flight,
\* has left no optimistic entry behind: the entry with its temporary id was
\* replaced by the canonical message, or the call failed, the user was
\* notified and the entry was removed.
C17_NoOptimisticLeftBehind ==
    \A k \in Reqs :
        (send[k].pc = "done" /\ wire = << >> /\ inbox = << >>)
        => /\ send[k].via = "failed" => toasts > 0
           /\ \A c \in DOMAIN chats : ~HasEntry(chats[c], send[k].tempId)
           /\ ~HasEntry(activeChat.messages, send[k].tempId)

\* C18: a sendMessage made while the socket is not connected goes to
\* POST /chats/:id/messages, and when the answer is 201 the entry with the
\* call's temporary id is gone from the chat's list in chats and in
\* activeChat and the canonical message, with the server's id, is there.
C18_RestFallbackReplaces ==
    [][\A k \in Reqs :
         LET p == send[k]
             q == send'[k]
         IN  /\ (p.pc \in {"idle", "done"} /\ q.pc \notin {"idle", "done"})
                   => (~connected /\ q.pc = "rest")
             /\ (p.pc \in {"idle", "done"} /\ q # p /\ ~connected)
                   => q.pc = "rest"
             /\ (p.pc = "rest" /\ q.pc = "rest_wait")
                   => /\ req'[k].h = "sendMessage"
                      /\ req'[k].user = currentUser
                      /\ req'[k].chatId = p.chatId
                      /\ req'[k].content = p.content
             /\ (p.pc = "rest_wait" /\ q.pc = "done" /\ req[k].status = 201)
                   => /\ q.via = "rest"
                      /\ p.chatId \in DOMAIN chats
                      /\ ~HasEntry(chats'[p.chatId], p.tempId)
                      /\ HasEntry(chats'[p.chatId], ServerId(req[k].resMessage))
                      /\ activeChat'.id = p.chatId
                      /\ ~HasEntry(activeChat'.messages, p.tempId)
                      /\ HasEntry(activeChat'.messages,
                                  ServerId(req[k].resMessage))
      ]_vars

\* C19: a sendMessage call that ended on the socket path, without a REST
\* attempt and without an error, has a message that reached the server or is
\* still on its way; a message lost with the connection is not treated as
\* delivered.
C19_SocketSendAcknowledged ==
    \A k \in Reqs :
        (send[k].pc = "done" /\ send[k].via = "socket")
        => \/ \E i \in 1..Len(wire) :
                 /\ wire[i].type = "send_message"
                 /\ wire[i].chatId = send[k].chatId
                 /\ wire[i].content = send[k].content
           \/ \E m \in Messages :
                 /\ m.chatId = send[k].chatId /\ m.userId = currentUser
                 /\ m.content = send[k].content

\* C20: two optimistic entries of a list never have the same temporary id,
\* and no temporary id is the id of a stored message.
C20_TempIdsDistinct ==
    /\ \A c \in DOMAIN chats :
          \A i, j \in TempEntries(chats[c]) :
              i # j => chats[c][i].id # chats[c][j].id
    /\ \A i, j \in TempEntries(activeChat.messages) :
          i # j => activeChat.messages[i].id # activeChat.messages[j].id
    /\ \A k \in Reqs, m \in Messages : send[k].tempId # ServerId(m.id)

\* the socket has sent this event and the server has not handled it yet
OnWire(e) == \E i \in 1..Len(wire) : wire[i] = e

\* C21: when the socket reconnects, the client emits join_chat for every chat
\* it holds and mark_read for the active chat.
C21_RejoinOnReconnect ==
    [][(reconnecting /\ ~connected /\ connected')
         => /\ \A c \in DOMAIN chats :
                  OnWire(ClientEvent("join_chat", c, <<>>))'
            /\ activeChat.id # 0 =>
                  OnWire(ClientEvent("mark_read", activeChat.id, <<>>))'
      ]_vars

\* the join notices the step adds to the messages of chat c
NewJoinNotices(c) ==
    { m \in Messages' \ Messages : m.chatId = c /\ m.content = JoinNotice }

\* C22: every step of an addParticipant call either leaves the tables as they
\* are or adds, all at once, the participant row, one join notice of the chat
\* and sets the chat's lastMessageAt to the time of the notice.  The step
\* that answers 200 adds them; a step that does not end the call and a step
\* that ends it with an error, a failing statement included, change nothing.
C22_AddParticipantAtomic ==
    [][\A r \in Reqs :
         (req'[r] # req[r] /\ req'[r].h = "addParticipant") =>
            LET c == req'[r].chatId
                l == Link(req'[r].userId, c)
                ended == req'[r].pc = "done"
                all == /\ CopiesIn(l, ChatParticipants')
                             = CopiesIn(l, ChatParticipants) + 1
                       /\ Cardinality(NewJoinNotices(c)) = 1
                       /\ Messages' \ Messages = NewJoinNotices(c)
                       /\ \E d \in Chats', m \in NewJoinNotices(c) :
                             d.id = c /\ d.lastMessageAt = m.createdAt
                none == UNCHANGED <<Chats, ChatParticipants, Messages>>
            IN  /\ all \/ none
                /\ (ended /\ req'[r].status = 200) => all
                /\ (~ended \/ req'[r].status \notin {0, 200}) => none
      ]_vars

\* C22 witness: one addParticipant call has succeeded and another one has
\* failed at a statement of its transaction
C22_JoinedAndFailed ==
    \E r, q \in Reqs :
        /\ Done(r, "addParticipant") /\ req[r].status = 200
        /\ Done(q, "addParticipant") /\ req[q].status = 500
        /\ \E m \in Messages : m.content = JoinNotice

\* the step ends the addParticipant call of request r
AddParticipantEnds(r) ==
    /\ req'[r] # req[r]
    /\ req'[r].h = "addParticipant" /\ req'[r].pc = "done"

\* C23 as stated: an addParticipant call that names a chat or a user that
\* does not exist ends with 404, one that names a user who is a participant
\* already ends with a conflict error, and none of them changes the tables.
C23_AddParticipantRefusals ==
    [][\A r \in Reqs : AddParticipantEnds(r) =>
         LET c == req'[r].chatId
             chatAbsent == ~\E d \in Chats : d.id = c
             userAbsent == req'[r].userId \notin Users
             already == HasLink(ChatParticipants, c, req'[r].userId)
         IN  /\ (chatAbsent \/ userAbsent) => req'[r].status = 404
             /\ (~chatAbsent /\ ~userAbsent /\ already)
                   => req'[r].status \in {400, 409}
             /\ (chatAbsent \/ userAbsent \/ already)
                   => UNCHANGED <<Chats, ChatParticipants, Messages>>
      ]_vars

\* C23 amended: the call ends with 404 when the chat does not exist and with
\* 403 when the caller is not a participant of the chat; for a caller who is
\* a participant it ends with 404 when the user to add does not exist and
\* with 400 when that user is a participant already.  None of these calls
\* changes the tables.
C23_AddParticipantRefusalsInOrder ==
    [][\A r \in Reqs : AddParticipantEnds(r) =>
         LET c == req'[r].chatId
             chatAbsent == ~\E d \in Chats : d.id = c
             member == HasLink(ChatParticipants, c, req'[r].user)
             userAbsent == req'[r].userId \notin Users
             already == HasLink(ChatParticipants, c, req'[r].userId)
         IN  /\ chatAbsent => req'[r].status = 404
             /\ (~chatAbsent /\ ~member) => req'[r].status = 403
             /\ (member /\ userAbsent) => req'[r].status = 404
             /\ (member /\ ~userAbsent /\ already) => req'[r].status = 400
             /\ (chatAbsent \/ ~member \/ userAbsent \/ already)
                   => UNCHANGED <<Chats, ChatParticipants, Messages>>
      ]_vars

\* C23 witness: a participant's call to add a participant of the chat was
\* answered 400
C23_AlreadyParticipant ==
    \E r \in Reqs :
        /\ Done(r, "addParticipant") /\ req[r].status = 400
        /\ HasLink(ChatParticipants, req[r].chatId, req[r].user)
        /\ HasLink(ChatParticipants, req[r].chatId, req[r].userId)
        /\ req[r].user # req[r].userId

C26_TransactionFinishedOnce ==
    \A r \in Reqs :
        (req[r].pc = "done"
           /\ req[r].h \in {"createChat", "addParticipant", "leaveChat"})
        => /\ req[r].status # 0
           /\ req[r].tx.state \in {"committed", "rolledback"}

\* C27: a message that activeChat shows as read is a message the server
\* holds as read: the row with its id or, for an optimistic entry, a row of
\* the chat with its sender and content.
C27_ClientReadIsServerRead ==
    \A k \in 1..Len(activeChat.messages) :
        LET m == activeChat.messages[k]
        IN  m.read =>
              \E row \in Messages :
                  /\ row.chatId = activeChat.id /\ row.read
                  /\ \/ m.id = ServerId(row.id)
                     \/ /\ IsTemp(m)
                        /\ row.userId = m.senderId /\ row.content = m.content

\* C28: while a user is logged in, the socket of socket.ts is connected or
\* connecting and was created with that user's token.
C28_SocketUsable ==
    token # NoUser =>
        /\ socket.state \in {"connecting", "connected"}
        /\ socket.token = token

\* C29: onlineUsers holds a user exactly when the last user_status_change
\* event for the user said online, and holds no user twice.
C29_OnlineUsersExact ==
    /\ \A u \in StatusUsers : Includes(onlineUsers, u) <=> presence[u]
    /\ \A i, j \in 1..Len(onlineUsers) :
          i # j => onlineUsers[i] # onlineUsers[j]

\* the chats of the service with exactly these two participants
ServiceChatsOf(pair) ==
    { i \in 1..Len(CHATS) : Elems(CHATS[i].participants) = pair }

\* C30: the service holds at most one chat of the two users, that chat is
\* not a group, and every createChat call for the two that is over returned
\* it, whether the call came with an empty name or through the fallback of
\* createPrivateChat with the participant's name.
C30_OneServiceChatPerPair ==
    /\ Cardinality(ServiceChatsOf({"A", "B"})) <= 1
    /\ \A i \in ServiceChatsOf({"A", "B"}) : ~CHATS[i].isGroup
    /\ \A k \in Reqs :
          calls[k].pc = "done" =>
              \E i \in ServiceChatsOf({"A", "B"}) : calls[k].result = CHATS[i]

====
